---- MODULE Spec2Model ----
(***************************************************************************)
(* Session lifecycle controller and background polling engine of           *)
(* NativeLocalStorageModule (Navis-VPS).                                    *)
(*                                                                         *)
(* Three threads touch the module's fields:                                *)
(*   "caller"  the thread on which the @ReactMethod commands run, one      *)
(*             command at a time;                                          *)
(*   "worker"  the single thread of executorService, which runs the        *)
(*             queued pollVpsState and closeAR tasks in order;             *)
(*   "local"   the thread of the temporary executor made by invalidate;    *)
(*   "engine"  the thread on which the engine calls back with the answer   *)
(*             to checkVpsAvailabilityAsync (it touches no field).         *)
(* The fields are plain (isPollingVpsState is volatile) and no lock is     *)
(* taken anywhere, so every read and write of a field is a step of its own *)
(* and the steps of the threads interleave freely.                         *)
(***************************************************************************)
EXTENDS Naturals, Sequences, FiniteSets

\* ------------------------------------------------------------------ bounds
\* Session objects the engine can hand out before ids are recycled.
MaxSessions == 2
\* Tasks that may wait on executorService at once.
MaxQueue == 2
\* Commands issued in a run that keeps a history.
MaxCmds == 3
\* Calls of session.update() a history counts: MaxTicks stands for that many
\* or more.
MaxTicks == 2
\* Camera poses the engine can report.
MaxPoses == 2

VARIABLES
  vpsState,              \* field vpsState
  mSession,              \* field mSession: 0 is null, else a session id
  isPollingVpsState,     \* field isPollingVpsState, the "should run" flag
  executorService,       \* tasks queued on executorService, oldest first
  session,               \* the engine: status of every session object
  earth,                 \* the engine: earth as of the last update()
  pc, cmd, tgt, ret, rv, \* per thread: position, operation, setState argument,
                         \* setState continuation, value being resolved
  cid,                   \* per thread: the number of the command it works for
  recording,             \* whether this run keeps a history (and is bounded)
  ncmd,                  \* history: the number of commands issued
  log,                   \* history: the commands issued, each with its result
  events,                \* history: the events emitted on onVpsStateChange, each
                         \* with the number of the command that emitted it (0: a
                         \* polling task) and the number of commands issued so far
  ticks,                 \* history: the session.update() calls of the polling tasks
  pose,                  \* the engine: the camera's geospatial pose as of the
                         \* last update(), one of Poses
  poseMap,               \* the maps getCameraGeospatialPose resolved with, the
                         \* latest first: the last two are kept
  pollFatal              \* history: "set" once a polling task wrote a fatal state
                         \* while no command was running,
                         \* "restart" once startTracking was called after that, "clear"
                         \* again when closeAR or invalidate is called ("off": not kept)

vars == <<vpsState, mSession, isPollingVpsState,
          executorService, session, earth,
          pc, cmd, tgt, ret, rv, cid, recording, ncmd, log, events, ticks, pollFatal,
          pose, poseMap>>

Threads == {"caller", "worker", "local", "engine"}

\* The states the polling task ends in: catch (CameraNotAvailableException),
\* catch (Exception) and an earth that is not ENABLED.
FatalStates == {"CAMERA_NOT_AVAILABLE", "EARTH_STATE_ERROR", "FATAL_UPDATE_ERROR"}

VpsState == {"NOT_SETUP", "SETTING_UP", "SETUP_FAILED", "UNSUPPORTED",
             "READY_TO_TRACK", "PRETRACKING", "TRACKING", "EARTH_STATE_ERROR",
             "CAMERA_NOT_AVAILABLE", "FATAL_UPDATE_ERROR"}

SessionIds == 1..MaxSessions
Poses == 1..MaxPoses
NULL == 0

\* ------------------------------------------------------------ the engine
\* What the ARCore calls made by the module can do.  "ok" is a normal return,
\* any other value is the class of the exception thrown.

\* session.isGeospatialModeSupported, getConfig and configure are called on a
\* freshly created session.
ConfigureOutcomes ==
  {"ok", "UnsupportedConfigurationException", "FatalException", "SecurityException"}

\* ArCoreApk.requestInstall followed by new Session(...).
CreateOutcomes ==
  {"ok", "UnavailableUserDeclinedInstallationException",
   "UnavailableArcoreNotInstalledException",
   "UnavailableDeviceNotCompatibleException", "UnavailableApkTooOldException",
   "UnavailableSdkTooOldException", "FatalException", "SecurityException"}

\* session.resume(): a session that is not paused refuses to resume.
ResumeOutcomes(st) ==
  CASE st = "paused"  -> {"ok", "CameraNotAvailableException", "SecurityException",
                          "IllegalStateException",
                          "UnsupportedConfigurationException", "FatalException"}
    [] st = "resumed" -> {"SessionNotPausedException"}
    [] OTHER          -> {"ok", "FatalException"}

\* session.pause() and session.close().
PauseOutcomes(st) == {"ok", "FatalException"}
CloseOutcomes(st) == {"ok", "FatalException"}

\* session.update(): a paused session has no frame to give.
UpdateOutcomes(st) ==
  CASE st = "resumed" -> {"ok", "CameraNotAvailableException", "FatalException"}
    [] st = "paused"  -> {"SessionPausedException"}
    [] OTHER          -> {"ok", "FatalException"}

\* What a frame can show of the earth: no earth object, an earth that is not
\* ENABLED, or an ENABLED earth that is TRACKING or not.
EarthValues == {"null", "disabled", "tracking", "nottracking"}

\* session.getEarth() of a session made by new Session(...): geospatial mode
\* is off until configure turns it on, and there is no earth object.
NewSessionEarth == "null"

\* config.setGeospatialMode(Config.GeospatialMode.ENABLED) gives the session
\* an earth, which tracks nothing before the first frame.
ConfiguredEarth == "nottracking"

\* The status a session has after an operation that returned normally.
After(st, new) == IF st = "closed" THEN "closed" ELSE new

FreeIds == {i \in SessionIds : session[i] = "free"}
Live == {i \in SessionIds : session[i] \in {"paused", "resumed"}}

\* Dropping the last reference to a closed session object lets its id be
\* used again.
Release(s, id) ==
  IF id # NULL /\ s[id] = "closed" THEN [s EXCEPT ![id] = "free"] ELSE s

\* ------------------------------------------------------------- helpers
Goto(t, l) == pc' = [pc EXCEPT ![t] = l]

\* promise.resolve(v) (or return v) as the next step of thread t.
Resolve(t, v) ==
  /\ pc' = [pc EXCEPT ![t] = "resolve"]
  /\ rv' = [rv EXCEPT ![t] = v]

\* setState(s) as the next steps of thread t, then on to label k.
CallSetState(t, s, k) ==
  /\ pc' = [pc EXCEPT ![t] = "ss_check"]
  /\ tgt' = [tgt EXCEPT ![t] = s]
  /\ ret' = [ret EXCEPT ![t] = k]

\* setState(s) and then promise.resolve(v).
SetStateResolve(t, s, v) ==
  /\ CallSetState(t, s, "resolve")
  /\ rv' = [rv EXCEPT ![t] = v]

\* The history of a run that keeps one.
Record(h, e) == IF recording THEN Append(h, e) ELSE h

\* One more call of session.update() in the history.
Tick(n) == IF recording /\ n < MaxTicks THEN n + 1 ELSE n

Init ==
  /\ vpsState = "NOT_SETUP"
  /\ mSession = NULL
  /\ isPollingVpsState = FALSE
  /\ executorService = <<>>
  /\ session = [i \in SessionIds |-> "free"]
  /\ earth = "nottracking"
  /\ pc = [t \in Threads |-> "idle"]
  /\ cmd = [t \in Threads |-> "none"]
  /\ tgt = [t \in Threads |-> "NOT_SETUP"]
  /\ ret = [t \in Threads |-> "idle"]
  /\ rv = [t \in Threads |-> "none"]
  /\ cid = [t \in Threads |-> 0]
  /\ recording = FALSE
  /\ ncmd = 0
  /\ log = <<>>
  /\ events = <<>>
  /\ ticks = 0
  /\ pose = 1
  /\ poseMap = <<>>
  /\ pollFatal = "off"

\* The promise of command number i is resolved with v; a promise keeps its
\* first resolution.
Resolved(l, i, v) ==
  IF recording /\ i \in 1..Len(l) /\ l[i].r = "pending"
  THEN [l EXCEPT ![i].r = v]
  ELSE l

\* Thread t has finished the operation it was running.
Done(t) ==
  /\ pc' = [pc EXCEPT ![t] = "idle"]
  /\ cmd' = [cmd EXCEPT ![t] = "none"]
  /\ rv' = [rv EXCEPT ![t] = "none"]
  /\ cid' = [cid EXCEPT ![t] = 0]

\* ------------------------------------------------------------ setState
\* setState returns to the label it was called to continue at.
Return(t) ==
  /\ pc' = [pc EXCEPT ![t] = ret[t]]
  /\ tgt' = [tgt EXCEPT ![t] = "NOT_SETUP"]
  /\ ret' = [ret EXCEPT ![t] = "idle"]

\* if (this.vpsState == newState) return;
setStateSkips(cur, new) == cur = new

setState_check(t) ==
  /\ pc[t] = "ss_check"
  /\ IF setStateSkips(vpsState, tgt[t])
     THEN Return(t)
     ELSE Goto(t, "ss_write") /\ UNCHANGED <<tgt, ret>>
  /\ UNCHANGED <<vpsState, mSession, isPollingVpsState,
                 executorService, session, earth, cmd, rv, events>>
  /\ UNCHANGED <<cid, recording, ncmd, log, ticks, pollFatal, pose, poseMap>>

\* this.vpsState = newState;
setState_write(t) ==
  /\ pc[t] = "ss_write"
  /\ vpsState' = tgt[t]
  /\ pollFatal' = IF /\ pollFatal = "clear" /\ pc["caller"] = "idle"
                     /\ cmd[t] = "pollVpsState" /\ tgt[t] \in FatalStates
                  THEN "set"
                  ELSE pollFatal
  /\ Goto(t, "ss_emit")
  /\ UNCHANGED <<mSession, isPollingVpsState,
                 executorService, session, earth, cmd, tgt, ret, rv,
                 events>>
  /\ UNCHANGED <<cid, recording, ncmd, log, ticks, pose, poseMap>>

\* emit(VPS_STATE_CHANGE_EVENT, newState.toString());
setState_emit(t) ==
  /\ pc[t] = "ss_emit"
  /\ events' = Record(events, [s |-> tgt[t], c |-> cid[t], n |-> ncmd])
  /\ Return(t)
  /\ UNCHANGED <<vpsState, mSession, isPollingVpsState,
                 executorService, session, earth, cmd, rv>>
  /\ UNCHANGED <<cid, recording, ncmd, log, ticks, pollFatal, pose, poseMap>>

\* promise.resolve(rv) or return rv: the operation of thread t is over.
resolve(t) ==
  /\ pc[t] = "resolve"
  /\ Done(t)
  /\ log' = Resolved(log, cid[t], rv[t])
  /\ UNCHANGED <<vpsState, mSession, isPollingVpsState,
                 executorService, session, earth, tgt, ret, recording, ncmd, events, ticks, pollFatal, pose, poseMap>>

\* An exception no catch clause of the operation takes leaves the method:
\* nothing is resolved and nothing more of the method runs.
uncaught(t) ==
  /\ pc[t] = "uncaught"
  /\ Done(t)
  /\ log' = Resolved(log, cid[t], "UNCAUGHT")
  /\ UNCHANGED <<vpsState, mSession, isPollingVpsState,
                 executorService, session, earth, tgt, ret, recording, ncmd, events, ticks, pollFatal, pose, poseMap>>

Uncaught(t, e) ==
  /\ pc' = [pc EXCEPT ![t] = "uncaught"]
  /\ rv' = [rv EXCEPT ![t] = e]

\* The method of thread t returns with nothing (more) to resolve.
finish(t) ==
  /\ pc[t] = "finish"
  /\ Done(t)
  /\ UNCHANGED <<vpsState, mSession, isPollingVpsState,
                 executorService, session, earth, tgt, ret, recording, ncmd, log,
                 events, ticks, pollFatal, pose, poseMap>>

\* A command can be issued when the caller thread is free and the module has
\* not been invalidated.
CanCall ==
  /\ pc["caller"] = "idle"
  /\ recording => ncmd < MaxCmds

\* Command c is issued: it runs on the caller thread.
Call(c) ==
  /\ CanCall
  /\ cmd' = [cmd EXCEPT !["caller"] = c]
  /\ IF recording
     THEN /\ ncmd' = ncmd + 1
          /\ log' = Append(log, [c |-> c, r |-> "pending"])
          /\ cid' = [cid EXCEPT !["caller"] = ncmd + 1]
     ELSE UNCHANGED <<ncmd, log, cid>>
  /\ pollFatal' = IF pollFatal \in {"set", "restart"} /\ c \in {"closeAR", "invalidate"}
                  THEN "clear"
                  ELSE IF pollFatal = "set" /\ c = "startTracking"
                       THEN "restart"
                       ELSE pollFatal
  /\ UNCHANGED <<recording, ticks, pose, poseMap>>

\* ------------------------------------------------------------- setupAR
\* The catch clauses of setupAR: the value resolved for an exception.
setupARCatch(e) ==
  CASE e = "UnavailableUserDeclinedInstallationException" -> "ERROR_ARCORE_INSTALL_DECLINED"
    [] e = "UnavailableArcoreNotInstalledException" -> "ERROR_ARCORE_NOT_INSTALLED"
    [] e = "UnavailableDeviceNotCompatibleException" -> "ERROR_ARCORE_NOT_COMPATIBLE"
    [] e = "UnavailableApkTooOldException" -> "ERROR_ARCORE_APK_TOO_OLD"
    [] e = "UnavailableSdkTooOldException" -> "ERROR_ARCORE_SDK_TOO_OLD"
    [] e = "FatalException" -> "ERROR_ARCORE_FATAL_ERROR"
    [] e = "SecurityException" -> "ERROR_ARCORE_SECURITY_ERROR"
    [] OTHER -> "UNCAUGHT"

\* An exception thrown inside setupAR's try block.
setupARThrow(e) ==
  IF setupARCatch(e) = "UNCAUGHT"
  THEN Uncaught("caller", e) /\ UNCHANGED <<tgt, ret>>
  ELSE SetStateResolve("caller", "SETUP_FAILED", setupARCatch(e))

\* setState(VpsState.SETTING_UP);
setupAR ==
  /\ Call("setupAR")
  /\ CallSetState("caller", "SETTING_UP", "su_activity")
  /\ UNCHANGED <<vpsState, mSession, isPollingVpsState,
                 executorService, session, earth, rv, events>>
  /\ UNCHANGED <<recording, ticks, pose, poseMap>>

\* if (mSession == null): setupAR makes a session only when it holds none.
setupARCreates(s) == s = NULL

\* getCurrentActivity() == null, and then: if (mSession == null)
setupAR_activity ==
  /\ pc["caller"] = "su_activity"
  /\ \E activity \in BOOLEAN :
       IF ~activity
       THEN SetStateResolve("caller", "SETUP_FAILED", "ERROR_ACTIVITY_DOES_NOT_EXIST")
       ELSE IF ~setupARCreates(mSession)
            THEN SetStateResolve("caller", "READY_TO_TRACK", "true")
            ELSE Goto("caller", "su_create") /\ UNCHANGED <<tgt, ret, rv>>
  /\ UNCHANGED <<vpsState, mSession, isPollingVpsState,
                 executorService, session, earth, cmd, events>>
  /\ UNCHANGED <<cid, recording, ncmd, log, ticks, pollFatal, pose, poseMap>>

\* checkAvailability, requestInstall and new Session(...).
\* mUserRequestedInstall is written here and read nowhere but in the call of
\* requestInstall, whose answer is the engine's to give: it is not modelled.
setupAR_create ==
  /\ pc["caller"] = "su_create"
  /\ \/ /\ SetStateResolve("caller", "UNSUPPORTED", "ERROR_ARCORE_NOT_SUPPORTED")
        /\ UNCHANGED <<vpsState, mSession, session, earth>>
     \/ /\ Resolve("caller", "false")
        /\ UNCHANGED <<vpsState, mSession, session, earth, tgt, ret>>
     \/ \E o \in CreateOutcomes :
          IF o = "ok"
          THEN /\ FreeIds # {}
               /\ LET id == CHOOSE i \in FreeIds : \A j \in FreeIds : i <= j
                  IN /\ mSession' = id
                     /\ session' = [session EXCEPT ![id] = "paused"]
               /\ earth' = NewSessionEarth
               /\ Goto("caller", "su_geo")
               /\ UNCHANGED <<vpsState, tgt, ret, rv>>
          ELSE /\ setupARThrow(o)
               /\ UNCHANGED <<vpsState, mSession, session, earth>>
  /\ UNCHANGED <<isPollingVpsState, executorService, cmd, events>>
  /\ UNCHANGED <<cid, recording, ncmd, log, ticks, pollFatal, pose, poseMap>>

\* mSession.isGeospatialModeSupported(Config.GeospatialMode.ENABLED)
setupAR_geo ==
  /\ pc["caller"] = "su_geo"
  /\ IF mSession = NULL
     THEN setupARThrow("NullPointerException")
     ELSE \/ Goto("caller", "su_config") /\ UNCHANGED <<tgt, ret, rv>>
          \/ /\ CallSetState("caller", "UNSUPPORTED", "su_geo_res")
             /\ rv' = [rv EXCEPT !["caller"] = "ERROR_GEOSPATIAL_NOT_SUPPORTED"]
          \/ /\ session[mSession] = "closed"
             /\ setupARThrow("FatalException")
  /\ UNCHANGED <<vpsState, mSession, isPollingVpsState,
                 executorService, session, earth, cmd, events>>
  /\ UNCHANGED <<cid, recording, ncmd, log, ticks, pollFatal, pose, poseMap>>

\* promise.resolve("ERROR_GEOSPATIAL_NOT_SUPPORTED"); the method goes on.
setupAR_geo_res ==
  /\ pc["caller"] = "su_geo_res"
  /\ Goto("caller", "su_geo_close")
  /\ rv' = [rv EXCEPT !["caller"] = "none"]
  /\ UNCHANGED <<vpsState, mSession, isPollingVpsState,
                 executorService, session, earth, cmd, tgt, ret, events>>
  /\ log' = Resolved(log, cid["caller"], rv["caller"])
  /\ UNCHANGED <<cid, recording, ncmd, ticks, pollFatal, pose, poseMap>>

\* mSession.close(); a throw here meets the catch clauses with the promise
\* already resolved, so only their setState shows.
setupAR_geo_close ==
  /\ pc["caller"] = "su_geo_close"
  /\ IF mSession = NULL
     THEN Uncaught("caller", "NullPointerException") /\ UNCHANGED <<session, tgt, ret>>
     ELSE \E o \in CloseOutcomes(session[mSession]) :
            IF o = "ok"
            THEN /\ session' = [session EXCEPT ![mSession] = "closed"]
                 /\ Goto("caller", "su_geo_null")
                 /\ UNCHANGED <<tgt, ret, rv>>
            ELSE /\ CallSetState("caller", "SETUP_FAILED", "finish")
                 /\ UNCHANGED <<session, rv>>
  /\ UNCHANGED <<vpsState, mSession, isPollingVpsState,
                 executorService, earth, cmd, events>>
  /\ UNCHANGED <<cid, recording, ncmd, log, ticks, pollFatal, pose, poseMap>>

\* mSession = null; return;
setupAR_geo_null ==
  /\ pc["caller"] = "su_geo_null"
  /\ mSession' = NULL
  /\ session' = Release(session, mSession)
  /\ Goto("caller", "finish")
  /\ UNCHANGED <<vpsState, isPollingVpsState,
                 executorService, earth, cmd, tgt, ret, rv, events>>
  /\ UNCHANGED <<cid, recording, ncmd, log, ticks, pollFatal, pose, poseMap>>

\* mSession.getConfig(); ... mSession.configure(config);
\* then setState(READY_TO_TRACK); promise.resolve(true);
setupAR_config ==
  /\ pc["caller"] = "su_config"
  /\ IF mSession = NULL
     THEN setupARThrow("NullPointerException") /\ UNCHANGED earth
     ELSE \E o \in ConfigureOutcomes :
            IF o = "ok"
            THEN /\ SetStateResolve("caller", "READY_TO_TRACK", "true")
                 /\ earth' = ConfiguredEarth
            ELSE setupARThrow(o) /\ UNCHANGED earth
  /\ UNCHANGED <<vpsState, mSession, isPollingVpsState,
                 executorService, session, cmd, events>>
  /\ UNCHANGED <<cid, recording, ncmd, log, ticks, pollFatal, pose, poseMap>>

\* ------------------------------------------------------- startTracking
\* A variant of StartReady that also lets a failed setup start tracking.
StartReadyOrFailed(st) == st \in {"READY_TO_TRACK", "SETUP_FAILED"}

\* if (vpsState != VpsState.READY_TO_TRACK) -> ERROR_SESSION_NOT_READY
StartReady(st) == st = "READY_TO_TRACK"

\* A variant of StartedState that skips the state before the first fix.
StartedStateTracking == "TRACKING"

\* setState(VpsState.PRETRACKING): the state a successful resume leads to.
StartedState == "PRETRACKING"

\* A variant of startTrackingCatch that reports a session that is not paused
\* as one that is not ready.
startTrackingCatchNotReady(e) ==
  CASE e = "SessionNotPausedException" -> "ERROR_SESSION_NOT_READY"
    [] e = "CameraNotAvailableException" -> "ERROR_CAMERA_NOT_AVAILABLE"
    [] e = "SecurityException" -> "ERROR_CAMERA_PERMISSION_NOT_GRANTED"
    [] e = "IllegalStateException" -> "ERROR_ILLEGAL_STATE"
    [] e = "UnsupportedConfigurationException" -> "ERROR_UNSUPPORTED_CONFIGURATION"
    [] e = "FatalException" -> "ERROR_FATAL"
    [] OTHER -> "UNCAUGHT"

\* The catch clauses of startTracking.
startTrackingCatch(e) ==
  CASE e = "SessionNotPausedException" -> "ERROR_SESSION_NOT_PAUSED"
    [] e = "CameraNotAvailableException" -> "ERROR_CAMERA_NOT_AVAILABLE"
    [] e = "SecurityException" -> "ERROR_CAMERA_PERMISSION_NOT_GRANTED"
    [] e = "IllegalStateException" -> "ERROR_ILLEGAL_STATE"
    [] e = "UnsupportedConfigurationException" -> "ERROR_UNSUPPORTED_CONFIGURATION"
    [] e = "FatalException" -> "ERROR_FATAL"
    [] OTHER -> "UNCAUGHT"

startTrackingThrow(e) ==
  IF startTrackingCatch(e) = "UNCAUGHT"
  THEN Uncaught("caller", e)
  ELSE Resolve("caller", startTrackingCatch(e))

\* if (mSession == null) -> ERROR_SESSION_NOT_INITIALIZED
startTracking ==
  /\ Call("startTracking")
  /\ Len(executorService) < MaxQueue
  /\ IF mSession = NULL
     THEN Resolve("caller", "ERROR_SESSION_NOT_INITIALIZED")
     ELSE Goto("caller", "st_state") /\ UNCHANGED rv
  /\ UNCHANGED <<vpsState, mSession, isPollingVpsState,
                 executorService, session, earth, tgt, ret, events>>
  /\ UNCHANGED <<recording, ticks, pose, poseMap>>

startTracking_state ==
  /\ pc["caller"] = "st_state"
  /\ IF StartReady(vpsState)
     THEN Goto("caller", "st_resume") /\ UNCHANGED rv
     ELSE Resolve("caller", "ERROR_SESSION_NOT_READY")
  /\ UNCHANGED <<vpsState, mSession, isPollingVpsState,
                 executorService, session, earth, cmd, tgt, ret, events>>
  /\ UNCHANGED <<cid, recording, ncmd, log, ticks, pollFatal, pose, poseMap>>

\* mSession.resume(); setState(VpsState.PRETRACKING);
startTracking_resume ==
  /\ pc["caller"] = "st_resume"
  /\ IF mSession = NULL
     THEN startTrackingThrow("NullPointerException") /\ UNCHANGED <<session, tgt, ret>>
     ELSE \E o \in ResumeOutcomes(session[mSession]) :
            IF o = "ok"
            THEN /\ session' = [session EXCEPT ![mSession] = After(@, "resumed")]
                 /\ CallSetState("caller", StartedState, "st_poll")
                 /\ UNCHANGED rv
            ELSE startTrackingThrow(o) /\ UNCHANGED <<session, tgt, ret>>
  /\ UNCHANGED <<vpsState, mSession, isPollingVpsState,
                 executorService, earth, cmd, events>>
  /\ UNCHANGED <<cid, recording, ncmd, log, ticks, pollFatal, pose, poseMap>>

\* if (!isPollingVpsState) { isPollingVpsState = true; ...
startTracking_poll ==
  /\ pc["caller"] = "st_poll"
  /\ IF ~isPollingVpsState
     THEN isPollingVpsState' = TRUE /\ Goto("caller", "st_submit") /\ UNCHANGED rv
     ELSE UNCHANGED isPollingVpsState /\ Resolve("caller", "true")
  /\ UNCHANGED <<vpsState, mSession, executorService, session, earth, cmd, tgt, ret, events>>
  /\ UNCHANGED <<cid, recording, ncmd, log, ticks, pollFatal, pose, poseMap>>

\* ... executorService.submit(this::pollVpsState); } promise.resolve(true);
startTracking_submit ==
  /\ pc["caller"] = "st_submit"
  /\ executorService' = Append(executorService, [task |-> "poll", id |-> 0])
  /\ Resolve("caller", "true")
  /\ UNCHANGED <<vpsState, mSession, isPollingVpsState,
                 session, earth, cmd, tgt, ret, events>>
  /\ UNCHANGED <<cid, recording, ncmd, log, ticks, pollFatal, pose, poseMap>>

\* -------------------------------------------------------- stopTracking
\* A variant of stopTrackingRefuses without the null check.
stopTrackingNeverRefuses(s) == FALSE

\* if (mSession == null): stopTracking has nothing to stop.
stopTrackingRefuses(s) == s = NULL

\* if (mSession == null) return false;
stopTracking ==
  /\ Call("stopTracking")
  /\ IF stopTrackingRefuses(mSession)
     THEN Resolve("caller", "false")
     ELSE Goto("caller", "sp_flag") /\ UNCHANGED rv
  /\ UNCHANGED <<vpsState, mSession, isPollingVpsState,
                 executorService, session, earth, tgt, ret, events>>
  /\ UNCHANGED <<recording, ticks, pose, poseMap>>

\* isPollingVpsState = false;
stopTracking_flag ==
  /\ pc["caller"] = "sp_flag"
  /\ isPollingVpsState' = FALSE
  /\ Goto("caller", "sp_pause")
  /\ UNCHANGED <<vpsState, mSession, executorService, session, earth, cmd, tgt, ret, rv, events>>
  /\ UNCHANGED <<cid, recording, ncmd, log, ticks, pollFatal, pose, poseMap>>

\* mSession.pause(); setState(VpsState.READY_TO_TRACK); return true;
\* stopTracking has no try block: whatever pause throws leaves the method.
stopTracking_pause ==
  /\ pc["caller"] = "sp_pause"
  /\ IF mSession = NULL
     THEN Uncaught("caller", "NullPointerException") /\ UNCHANGED <<session, tgt, ret>>
     ELSE \E o \in PauseOutcomes(session[mSession]) :
            IF o = "ok"
            THEN /\ session' = [session EXCEPT ![mSession] = After(@, "paused")]
                 /\ SetStateResolve("caller", "READY_TO_TRACK", "true")
            ELSE Uncaught("caller", o) /\ UNCHANGED <<session, tgt, ret>>
  /\ UNCHANGED <<vpsState, mSession, isPollingVpsState,
                 executorService, earth, cmd, events>>
  /\ UNCHANGED <<cid, recording, ncmd, log, ticks, pollFatal, pose, poseMap>>

\* ------------------------------------------------------------- closeAR
\* isPollingVpsState = false;
closeAR ==
  /\ Call("closeAR")
  /\ Len(executorService) < MaxQueue
  /\ isPollingVpsState' = FALSE
  /\ Goto("caller", "cl_check")
  /\ UNCHANGED <<vpsState, mSession, executorService, session, earth, tgt, ret, rv, events>>
  /\ UNCHANGED <<recording, ticks, pose, poseMap>>

\* if (mSession != null) ... else { setState(NOT_SETUP); promise.resolve(true); }
closeAR_check ==
  /\ pc["caller"] = "cl_check"
  /\ IF mSession # NULL
     THEN Goto("caller", "cl_pause") /\ UNCHANGED <<tgt, ret, rv>>
     ELSE SetStateResolve("caller", "NOT_SETUP", "true")
  /\ UNCHANGED <<vpsState, mSession, isPollingVpsState,
                 executorService, session, earth, cmd, events>>
  /\ UNCHANGED <<cid, recording, ncmd, log, ticks, pollFatal, pose, poseMap>>

\* mSession.pause(); catch (Exception e) -> ERROR_ARCORE_PAUSE_ERROR
closeAR_pause ==
  /\ pc["caller"] = "cl_pause"
  /\ IF mSession = NULL
     THEN Resolve("caller", "ERROR_ARCORE_PAUSE_ERROR") /\ UNCHANGED session
     ELSE \E o \in PauseOutcomes(session[mSession]) :
            IF o = "ok"
            THEN /\ session' = [session EXCEPT ![mSession] = After(@, "paused")]
                 /\ Goto("caller", "cl_execute")
                 /\ UNCHANGED rv
            ELSE Resolve("caller", "ERROR_ARCORE_PAUSE_ERROR") /\ UNCHANGED session
  /\ UNCHANGED <<vpsState, mSession, isPollingVpsState,
                 executorService, earth, cmd, tgt, ret, events>>
  /\ UNCHANGED <<cid, recording, ncmd, log, ticks, pollFatal, pose, poseMap>>

\* executorService.execute(() -> { ... }); the method returns, the promise
\* is left to the task.
closeAR_execute ==
  /\ pc["caller"] = "cl_execute"
  /\ executorService' = Append(executorService, [task |-> "close", id |-> cid["caller"]])
  /\ Goto("caller", "finish")
  /\ UNCHANGED <<vpsState, mSession, isPollingVpsState,
                 session, earth, cmd, tgt, ret, rv, events>>
  /\ UNCHANGED <<cid, recording, ncmd, log, ticks, pollFatal, pose, poseMap>>

\* The task closeAR queued, on the worker: if (mSession != null)
closeTask_check ==
  /\ pc["worker"] = "c_check"
  /\ IF mSession # NULL
     THEN Goto("worker", "c_close") /\ UNCHANGED <<tgt, ret, rv>>
     ELSE SetStateResolve("worker", "NOT_SETUP", "true")
  /\ UNCHANGED <<vpsState, mSession, isPollingVpsState,
                 executorService, session, earth, cmd, events>>
  /\ UNCHANGED <<cid, recording, ncmd, log, ticks, pollFatal, pose, poseMap>>

\* mSession.close();
closeTask_close ==
  /\ pc["worker"] = "c_close"
  /\ IF mSession = NULL
     THEN Goto("worker", "c_catch") /\ UNCHANGED session
     ELSE \E o \in CloseOutcomes(session[mSession]) :
            IF o = "ok"
            THEN /\ session' = [session EXCEPT ![mSession] = "closed"]
                 /\ Goto("worker", "c_null")
            ELSE Goto("worker", "c_catch") /\ UNCHANGED session
  /\ UNCHANGED <<vpsState, mSession, isPollingVpsState,
                 executorService, earth, cmd, tgt, ret, rv, events>>
  /\ UNCHANGED <<cid, recording, ncmd, log, ticks, pollFatal, pose, poseMap>>

\* mSession = null; setState(VpsState.NOT_SETUP); promise.resolve(true);
closeTask_null ==
  /\ pc["worker"] = "c_null"
  /\ mSession' = NULL
  /\ session' = Release(session, mSession)
  /\ SetStateResolve("worker", "NOT_SETUP", "true")
  /\ UNCHANGED <<vpsState, isPollingVpsState,
                 executorService, earth, cmd, events>>
  /\ UNCHANGED <<cid, recording, ncmd, log, ticks, pollFatal, pose, poseMap>>

\* A variant of closeARCatch that takes every failed close for a session
\* already gone.
closeARCatchAlwaysGone(s) == "true"

\* What the catch clause of closeAR's task resolves when it finds mSession s.
closeARCatch(s) == IF s # NULL THEN "ERROR_ARCORE_CLOSE_ERROR" ELSE "true"

\* catch (Exception e) { if (mSession != null) ERROR_ARCORE_CLOSE_ERROR
\*                       else { setState(NOT_SETUP); promise.resolve(true); } }
closeTask_catch ==
  /\ pc["worker"] = "c_catch"
  /\ IF closeARCatch(mSession) # "true"
     THEN Resolve("worker", closeARCatch(mSession)) /\ UNCHANGED <<tgt, ret>>
     ELSE SetStateResolve("worker", "NOT_SETUP", "true")
  /\ UNCHANGED <<vpsState, mSession, isPollingVpsState,
                 executorService, session, earth, cmd, events>>
  /\ UNCHANGED <<cid, recording, ncmd, log, ticks, pollFatal, pose, poseMap>>

\* ---------------------------------------------------------- invalidate
\* isPollingVpsState = false; executorService.shutdown();
\* No command reaches the module once it is invalidated, so the shutdown
\* shows only in that: the tasks already queued still run.
invalidate ==
  /\ Call("invalidate")
  /\ isPollingVpsState' = FALSE
  /\ Goto("caller", "iv_check")
  /\ UNCHANGED <<vpsState, mSession, executorService, session, earth, tgt, ret, rv, events>>
  /\ UNCHANGED <<recording, ticks, pose, poseMap>>

\* if (mSession != null) { mSession.pause(); localExecutor.execute(...) }
\* catch (Exception e) { log }
invalidate_pause ==
  /\ pc["caller"] = "iv_check"
  /\ IF mSession = NULL
     THEN Goto("caller", "dead") /\ UNCHANGED session
     ELSE \E o \in PauseOutcomes(session[mSession]) :
            IF o = "ok"
            THEN /\ session' = [session EXCEPT ![mSession] = After(@, "paused")]
                 /\ pc' = [pc EXCEPT !["caller"] = "dead", !["local"] = "l_check"]
            ELSE Goto("caller", "dead") /\ UNCHANGED session
  /\ UNCHANGED <<vpsState, mSession, isPollingVpsState,
                 executorService, earth, cmd, tgt, ret, rv, events>>
  /\ UNCHANGED <<cid, recording, ncmd, log, ticks, pollFatal, pose, poseMap>>

\* The task of invalidate's localExecutor: if (mSession != null)
invalidateTask_check ==
  /\ pc["local"] = "l_check"
  /\ IF mSession # NULL THEN Goto("local", "l_close") ELSE Goto("local", "l_done")
  /\ UNCHANGED <<vpsState, mSession, isPollingVpsState,
                 executorService, session, earth, cmd, tgt, ret, rv, events>>
  /\ UNCHANGED <<cid, recording, ncmd, log, ticks, pollFatal, pose, poseMap>>

\* mSession.close(); nothing catches what it throws.
invalidateTask_close ==
  /\ pc["local"] = "l_close"
  /\ IF mSession = NULL
     THEN Goto("local", "l_done") /\ UNCHANGED session
     ELSE \E o \in CloseOutcomes(session[mSession]) :
            IF o = "ok"
            THEN /\ session' = [session EXCEPT ![mSession] = "closed"]
                 /\ Goto("local", "l_null")
            ELSE Goto("local", "l_done") /\ UNCHANGED session
  /\ UNCHANGED <<vpsState, mSession, isPollingVpsState,
                 executorService, earth, cmd, tgt, ret, rv, events>>
  /\ UNCHANGED <<cid, recording, ncmd, log, ticks, pollFatal, pose, poseMap>>

\* mSession = null;
invalidateTask_null ==
  /\ pc["local"] = "l_null"
  /\ mSession' = NULL
  /\ session' = Release(session, mSession)
  /\ Goto("local", "l_done")
  /\ UNCHANGED <<vpsState, isPollingVpsState,
                 executorService, earth, cmd, tgt, ret, rv, events>>
  /\ UNCHANGED <<cid, recording, ncmd, log, ticks, pollFatal, pose, poseMap>>

\* -------------------------------------------------------- pollVpsState
\* A variant of ExecutorTakesNext for an executor that starts a task while
\* the task before it still runs.
ExecutorTakesNextAtOnce(p) == TRUE

\* Executors.newSingleThreadExecutor(): its one thread, at position p, takes
\* the next task when the task before it has returned.
ExecutorTakesNext(p) == p = "idle"

\* The worker takes the next task of executorService.
worker_take ==
  /\ ExecutorTakesNext(pc["worker"])
  /\ executorService # <<>>
  /\ executorService' = Tail(executorService)
  /\ IF Head(executorService).task = "poll"
     THEN /\ Goto("worker", "p_loop")
          /\ cmd' = [cmd EXCEPT !["worker"] = "pollVpsState"]
     ELSE /\ Goto("worker", "c_check")
          /\ cmd' = [cmd EXCEPT !["worker"] = "closeAR"]
  /\ cid' = [cid EXCEPT !["worker"] = Head(executorService).id]
  /\ UNCHANGED <<vpsState, mSession, isPollingVpsState,
                 session, earth, tgt, ret, rv, events>>
  /\ UNCHANGED <<recording, ncmd, log, ticks, pollFatal, pose, poseMap>>

\* A variant of pollCatch that takes every failure for a fatal update error.
pollCatchAllFatal(e) == "FATAL_UPDATE_ERROR"

\* The state pollVpsState sets for what update() (or anything else in the
\* try block) throws.
pollCatch(e) ==
  IF e = "CameraNotAvailableException" THEN "CAMERA_NOT_AVAILABLE"
  ELSE "FATAL_UPDATE_ERROR"

\* catch (CameraNotAvailableException e) / catch (Throwable t) of the tick:
\* the task holds the exception e and calls setState, then clears the flag.
PollCaught(e) ==
  /\ CallSetState("worker", pollCatch(e), "p_stop")
  /\ rv' = [rv EXCEPT !["worker"] = e]

\* A variant of PollContinues for a loop that does not read the flag.
PollContinuesRegardless(f) == TRUE

\* while (isPollingVpsState): the loop starts another tick when the flag f
\* is set.
PollContinues(f) == f

\* while (isPollingVpsState), after the sleep of the tick before.
pollVpsState_loop ==
  /\ pc["worker"] = "p_loop"
  /\ IF PollContinues(isPollingVpsState) THEN Goto("worker", "p_session") ELSE Goto("worker", "finish")
  /\ UNCHANGED <<vpsState, mSession, isPollingVpsState,
                 executorService, session, earth, cmd, tgt, ret, rv, events>>
  /\ UNCHANGED <<cid, recording, ncmd, log, ticks, pollFatal, pose, poseMap>>

\* A variant of PollHasSession for a tick that does not test the handle.
PollHasSessionUntested(s) == TRUE

\* if (mSession != null): the tick has a handle to call the engine on.
PollHasSession(s) == s # NULL

\* if (mSession != null) ... else { setState(NOT_SETUP); ... }
pollVpsState_session ==
  /\ pc["worker"] = "p_session"
  /\ IF PollHasSession(mSession)
     THEN Goto("worker", "p_update") /\ UNCHANGED <<tgt, ret>>
     ELSE CallSetState("worker", "NOT_SETUP", "p_stop")
  /\ UNCHANGED <<vpsState, mSession, isPollingVpsState,
                 executorService, session, earth, cmd, rv, events>>
  /\ UNCHANGED <<cid, recording, ncmd, log, ticks, pollFatal, pose, poseMap>>

\* isPollingVpsState = false; return;
pollVpsState_stop ==
  /\ pc["worker"] = "p_stop"
  /\ isPollingVpsState' = FALSE
  /\ Goto("worker", "finish")
  /\ UNCHANGED <<vpsState, mSession, executorService, session, earth, cmd, tgt, ret, rv, events>>
  /\ UNCHANGED <<cid, recording, ncmd, log, ticks, pollFatal, pose, poseMap>>

\* A tracking earth has a camera pose; each frame can bring another one.
EarthHasPose(e) == e = "tracking"

\* Frame frame = mSession.update(); the frame fixes what the earth shows.
pollVpsState_update ==
  /\ pc["worker"] = "p_update"
  /\ IF mSession = NULL
     THEN /\ PollCaught("NullPointerException")
          /\ UNCHANGED <<earth, pose>>
     ELSE \E o \in UpdateOutcomes(session[mSession]) :
            IF o = "ok"
            THEN /\ \E e \in EarthValues : earth' = e
                 /\ IF EarthHasPose(earth')
                    THEN \E p \in Poses : pose' = p
                    ELSE UNCHANGED pose
                 /\ Goto("worker", "p_earth")
                 /\ UNCHANGED <<tgt, ret, rv>>
            ELSE /\ PollCaught(o)
                 /\ UNCHANGED <<earth, pose>>
  /\ ticks' = IF mSession # NULL THEN Tick(ticks) ELSE ticks
  /\ UNCHANGED <<pollFatal, poseMap>>
  /\ UNCHANGED <<vpsState, mSession, isPollingVpsState,
                 executorService, session, cmd, events>>
  /\ UNCHANGED <<cid, recording, ncmd, log>>

\* What the polling task holds, in the place of an exception, once a tick
\* of it has seen an earth that is not ENABLED.
EarthNotEnabled == "EARTH_NOT_ENABLED"

\* Earth earth = mSession.getEarth(); if (earth != null) updateGeospatialState:
\* if (earthState != Earth.EarthState.ENABLED) setState(EARTH_STATE_ERROR) ...
pollVpsState_earth ==
  /\ pc["worker"] = "p_earth"
  /\ IF mSession = NULL
     THEN PollCaught("NullPointerException")
     ELSE IF earth = "null"
          THEN Goto("worker", "p_loop") /\ UNCHANGED <<tgt, ret, rv>>
          ELSE IF earth = "disabled"
               THEN /\ CallSetState("worker", "EARTH_STATE_ERROR", "p_clear")
                    /\ rv' = [rv EXCEPT !["worker"] = EarthNotEnabled]
               ELSE Goto("worker", "p_compare") /\ UNCHANGED <<tgt, ret, rv>>
  /\ UNCHANGED <<vpsState, mSession, isPollingVpsState,
                 executorService, session, earth, cmd, events>>
  /\ UNCHANGED <<cid, recording, ncmd, log, ticks, pollFatal, pose, poseMap>>

\* isPollingVpsState = false; return (from updateGeospatialState: the loop
\* sleeps and tests its condition again).
updateGeospatialState_clear ==
  /\ pc["worker"] = "p_clear"
  /\ isPollingVpsState' = FALSE
  /\ Goto("worker", "p_loop")
  /\ UNCHANGED <<vpsState, mSession, executorService, session, earth, cmd, tgt, ret, rv, events>>
  /\ UNCHANGED <<cid, recording, ncmd, log, ticks, pollFatal, pose, poseMap>>

\* A variant of TrackingTransition that takes the fix from READY_TO_TRACK.
TrackingTransitionFromReady(st, tracking) ==
  IF tracking
  THEN IF st = "READY_TO_TRACK" THEN "TRACKING" ELSE st
  ELSE IF st = "TRACKING" THEN "READY_TO_TRACK" ELSE st

\* A variant of TrackingTransition whose lost fix goes back to PRETRACKING.
TrackingTransitionToPretracking(st, tracking) ==
  IF tracking
  THEN IF st = "PRETRACKING" THEN "TRACKING" ELSE st
  ELSE IF st = "TRACKING" THEN "PRETRACKING" ELSE st

\* The state updateGeospatialState moves to, if any, from state st when the
\* earth is ENABLED and its tracking state is TRACKING (tracking) or not.
TrackingTransition(st, tracking) ==
  IF tracking
  THEN IF st = "PRETRACKING" THEN "TRACKING" ELSE st
  ELSE IF st = "TRACKING" THEN "READY_TO_TRACK" ELSE st

\* if (earthTrackingState == TrackingState.TRACKING) { if (vpsState == PRETRACKING)
\*   setState(TRACKING) } else { if (vpsState == TRACKING) setState(READY_TO_TRACK) }
updateGeospatialState_compare ==
  /\ pc["worker"] = "p_compare"
  /\ LET new == TrackingTransition(vpsState, earth = "tracking")
     IN IF new # vpsState
        THEN CallSetState("worker", new, "p_loop")
        ELSE Goto("worker", "p_loop") /\ UNCHANGED <<tgt, ret>>
  /\ UNCHANGED <<vpsState, mSession, isPollingVpsState,
                 executorService, session, earth, cmd, rv, events>>
  /\ UNCHANGED <<cid, recording, ncmd, log, ticks, pollFatal, pose, poseMap>>

\* ------------------------------------------------------------- queries
\* The queries read the fields and write none, so the field values Next
\* reaches do not depend on them: Next leaves them out, NextQuery has them.
\* getCameraGeospatialPose: if (mSession == null) -> ERROR_SESSION_NOT_INITIALIZED
getCameraGeospatialPose ==
  /\ Call("getCameraGeospatialPose")
  /\ IF mSession = NULL
     THEN Resolve("caller", "ERROR_SESSION_NOT_INITIALIZED")
     ELSE Goto("caller", "gp_earth") /\ UNCHANGED rv
  /\ UNCHANGED <<vpsState, mSession, isPollingVpsState,
                 executorService, session, earth, tgt, ret, events>>
  /\ UNCHANGED <<recording, ticks, pose, poseMap>>

\* Earth earth = mSession.getEarth(); if (earth == null) -> ERROR_EARTH_NOT_AVAILABLE
getCameraGeospatialPose_earth ==
  /\ pc["caller"] = "gp_earth"
  /\ IF mSession = NULL
     THEN Uncaught("caller", "NullPointerException")
     ELSE IF earth = "null"
          THEN Resolve("caller", "ERROR_EARTH_NOT_AVAILABLE")
          ELSE Goto("caller", "gp_tracking") /\ UNCHANGED rv
  /\ UNCHANGED <<vpsState, mSession, isPollingVpsState,
                 executorService, session, earth, cmd, tgt, ret, events>>
  /\ UNCHANGED <<cid, recording, ncmd, log, ticks, pollFatal, pose, poseMap>>

\* A variant of EarthTracks that takes every ENABLED earth for a tracking one.
EarthTracksWhenEnabled(e) == e \in {"tracking", "nottracking"}

\* earth.getTrackingState() == TrackingState.TRACKING
EarthTracks(e) == e = "tracking"

\* The GeospatialPose object the engine hands out for its pose number p: the
\* getters of the seven values, every value of a pose different from the
\* others and from the values of another pose.
EnginePose(p) ==
  [getLatitude |-> 10 * p + 1, getLongitude |-> 10 * p + 2,
   getAltitude |-> 10 * p + 3, getVerticalAccuracy |-> 10 * p + 4,
   getHorizontalAccuracy |-> 10 * p + 5, getOrientationYawAccuracy |-> 10 * p + 6,
   getEastUpSouthQuaternion |-> <<100 * p + 1, 100 * p + 2, 100 * p + 3, 100 * p + 4>>]

\* pushDouble(v) of a float v: the widening conversion keeps the number.
FloatToDouble(v) == v

\* for (float v : quaternion) quaternionArray.pushDouble(v), from element i on.
RECURSIVE PushAll(_, _)
PushAll(q, i) ==
  IF i > Len(q) THEN <<>> ELSE <<FloatToDouble(q[i])>> \o PushAll(q, i + 1)

\* A variant of PoseMap that files the two linear accuracies under each
\* other's key.
PoseMapAccuraciesSwapped(g) ==
  [latitude |-> g.getLatitude, longitude |-> g.getLongitude,
   altitude |-> g.getAltitude, verticalAccuracy |-> g.getHorizontalAccuracy,
   horizontalAccuracy |-> g.getVerticalAccuracy,
   orientationYawAccuracy |-> g.getOrientationYawAccuracy,
   quaternion |-> PushAll(g.getEastUpSouthQuaternion, 1)]

\* The WritableMap built from the GeospatialPose g: six putDouble and one
\* putArray.
PoseMap(g) ==
  [latitude |-> g.getLatitude, longitude |-> g.getLongitude,
   altitude |-> g.getAltitude, verticalAccuracy |-> g.getVerticalAccuracy,
   horizontalAccuracy |-> g.getHorizontalAccuracy,
   orientationYawAccuracy |-> g.getOrientationYawAccuracy,
   quaternion |-> PushAll(g.getEastUpSouthQuaternion, 1)]

\* if (earth.getTrackingState() != TrackingState.TRACKING) -> ERROR_EARTH_NOT_TRACKING
\* else the pose is read and resolved.
getCameraGeospatialPose_tracking ==
  /\ pc["caller"] = "gp_tracking"
  /\ IF EarthTracks(earth)
     THEN /\ Resolve("caller", "POSE")
          /\ poseMap' = <<PoseMap(EnginePose(pose))>> \o (IF poseMap = <<>> THEN <<>> ELSE <<poseMap[1]>>)
     ELSE /\ Resolve("caller", "ERROR_EARTH_NOT_TRACKING")
          /\ UNCHANGED poseMap
  /\ UNCHANGED <<vpsState, mSession, isPollingVpsState,
                 executorService, session, earth, cmd, tgt, ret, events>>
  /\ UNCHANGED <<cid, recording, ncmd, log, ticks, pollFatal, pose>>

\* What the engine's callback reports: VpsAvailability.toString().
AvailabilityValues ==
  {"AVAILABLE", "UNAVAILABLE", "UNKNOWN", "ERROR_INTERNAL",
   "ERROR_NETWORK_CONNECTION", "ERROR_NOT_AUTHORIZED", "ERROR_RESOURCE_EXHAUSTED"}

\* A variant of AvailabilityRefused that answers only while tracking.
AvailabilityRefusedUnlessTracking(s, st) == s = NULL \/ st # "TRACKING"

\* if (mSession == null): the test reads the handle and not the state st.
AvailabilityRefused(s, st) == s = NULL

\* checkVpsAvailability: if (mSession == null) -> ERROR_SESSION_NOT_INITIALIZED
\* One query is in flight at a time.
checkVpsAvailability ==
  /\ Call("checkVpsAvailability")
  /\ pc["engine"] = "idle"
  /\ IF AvailabilityRefused(mSession, vpsState)
     THEN Resolve("caller", "ERROR_SESSION_NOT_INITIALIZED")
     ELSE Goto("caller", "cv_call") /\ UNCHANGED rv
  /\ UNCHANGED <<vpsState, mSession, isPollingVpsState,
                 executorService, session, earth, tgt, ret, events>>
  /\ UNCHANGED <<recording, ticks, pose, poseMap>>

\* mSession.checkVpsAvailabilityAsync(latitude, longitude, callback);
\* catch (SecurityException e) -> ERROR_INTERNET_PERMISSION_NOT_GRANTED
checkVpsAvailability_call ==
  /\ pc["caller"] = "cv_call"
  /\ IF mSession = NULL
     THEN Uncaught("caller", "NullPointerException") /\ UNCHANGED <<cmd, cid>>
     ELSE \/ Resolve("caller", "ERROR_INTERNET_PERMISSION_NOT_GRANTED") /\ UNCHANGED <<cmd, cid>>
          \/ /\ pc' = [pc EXCEPT !["caller"] = "finish", !["engine"] = "cv_callback"]
             /\ cmd' = [cmd EXCEPT !["engine"] = "checkVpsAvailability"]
             /\ cid' = [cid EXCEPT !["engine"] = cid["caller"]]
             /\ UNCHANGED rv
  /\ UNCHANGED <<vpsState, mSession, isPollingVpsState,
                 executorService, session, earth, tgt, ret, events>>
  /\ UNCHANGED <<recording, ncmd, log, ticks, pollFatal, pose, poseMap>>

\* (availability) -> promise.resolve(availability.toString())
checkVpsAvailability_callback ==
  /\ pc["engine"] = "cv_callback"
  /\ \E a \in AvailabilityValues : Resolve("engine", a)
  /\ UNCHANGED <<vpsState, mSession, isPollingVpsState,
                 executorService, session, earth, cmd, tgt, ret, events>>
  /\ UNCHANGED <<cid, recording, ncmd, log, ticks, pollFatal, pose, poseMap>>

\* getVpsState: return vpsState.toString();
getVpsState ==
  /\ Call("getVpsState")
  /\ Resolve("caller", vpsState)
  /\ UNCHANGED <<vpsState, mSession, isPollingVpsState,
                 executorService, session, earth, tgt, ret, events>>
  /\ UNCHANGED <<recording, ticks, pose, poseMap>>

\* --------------------------------------------------------- specification
Next ==
  \/ \E t \in Threads : setState_check(t)
  \/ \E t \in Threads : setState_write(t)
  \/ \E t \in Threads : setState_emit(t)
  \/ \E t \in Threads : resolve(t)
  \/ \E t \in Threads : uncaught(t)
  \/ \E t \in Threads : finish(t)
  \/ setupAR
  \/ setupAR_activity
  \/ setupAR_create
  \/ setupAR_geo
  \/ setupAR_geo_res
  \/ setupAR_geo_close
  \/ setupAR_geo_null
  \/ setupAR_config
  \/ startTracking
  \/ startTracking_state
  \/ startTracking_resume
  \/ startTracking_poll
  \/ startTracking_submit
  \/ stopTracking
  \/ stopTracking_flag
  \/ stopTracking_pause
  \/ closeAR
  \/ closeAR_check
  \/ closeAR_pause
  \/ closeAR_execute
  \/ closeTask_check
  \/ closeTask_close
  \/ closeTask_null
  \/ closeTask_catch
  \/ invalidate
  \/ invalidate_pause
  \/ invalidateTask_check
  \/ invalidateTask_close
  \/ invalidateTask_null
  \/ worker_take
  \/ pollVpsState_loop
  \/ pollVpsState_session
  \/ pollVpsState_stop
  \/ pollVpsState_update
  \/ pollVpsState_earth
  \/ updateGeospatialState_clear
  \/ updateGeospatialState_compare

Spec == Init /\ [][Next]_vars

\* A run that keeps the history of its commands and events, of at most
\* MaxCmds commands.
InitHist ==
  /\ vpsState = "NOT_SETUP"
  /\ mSession = NULL
  /\ isPollingVpsState = FALSE
  /\ executorService = <<>>
  /\ session = [i \in SessionIds |-> "free"]
  /\ earth = "nottracking"
  /\ pc = [t \in Threads |-> "idle"]
  /\ cmd = [t \in Threads |-> "none"]
  /\ tgt = [t \in Threads |-> "NOT_SETUP"]
  /\ ret = [t \in Threads |-> "idle"]
  /\ rv = [t \in Threads |-> "none"]
  /\ cid = [t \in Threads |-> 0]
  /\ recording = TRUE
  /\ ncmd = 0
  /\ log = <<>>
  /\ events = <<>>
  /\ ticks = 0
  /\ pose = 1
  /\ poseMap = <<>>
  /\ pollFatal = "off"

SpecHist == InitHist /\ [][Next]_vars

\* The steps of the thread of executorService.
WorkerNext ==
  \/ worker_take
  \/ pollVpsState_loop
  \/ pollVpsState_session
  \/ pollVpsState_stop
  \/ pollVpsState_update
  \/ pollVpsState_earth
  \/ updateGeospatialState_clear
  \/ updateGeospatialState_compare
  \/ closeTask_check
  \/ closeTask_close
  \/ closeTask_null
  \/ closeTask_catch
  \/ setState_check("worker")
  \/ setState_write("worker")
  \/ setState_emit("worker")
  \/ resolve("worker")
  \/ uncaught("worker")
  \/ finish("worker")

\* A run that keeps its history and in which the thread of executorService
\* is scheduled: it takes its next step whenever it has one (the sleep of
\* the loop ends, and no step of a task waits for another thread).
SpecFair == InitHist /\ [][Next]_vars /\ WF_vars(WorkerNext)

\* A run that keeps whether a polling task has written a fatal state.
InitRestart ==
  /\ vpsState = "NOT_SETUP"
  /\ mSession = NULL
  /\ isPollingVpsState = FALSE
  /\ executorService = <<>>
  /\ session = [i \in SessionIds |-> "free"]
  /\ earth = "nottracking"
  /\ pc = [t \in Threads |-> "idle"]
  /\ cmd = [t \in Threads |-> "none"]
  /\ tgt = [t \in Threads |-> "NOT_SETUP"]
  /\ ret = [t \in Threads |-> "idle"]
  /\ rv = [t \in Threads |-> "none"]
  /\ cid = [t \in Threads |-> 0]
  /\ recording = FALSE
  /\ ncmd = 0
  /\ log = <<>>
  /\ events = <<>>
  /\ ticks = 0
  /\ pose = 1
  /\ poseMap = <<>>
  /\ pollFatal = "clear"

SpecRestart == InitRestart /\ [][Next]_vars

\* The commands together with the queries, in a run that keeps its history.
NextQuery ==
  \/ Next
  \/ getCameraGeospatialPose
  \/ getCameraGeospatialPose_earth
  \/ getCameraGeospatialPose_tracking
  \/ checkVpsAvailability
  \/ checkVpsAvailability_call
  \/ checkVpsAvailability_callback
  \/ getVpsState

SpecQuery == InitHist /\ [][NextQuery]_vars

\* The module while it tracks: setupAR and startTracking have returned true
\* and the worker has taken the polling task.
InitPose ==
  /\ vpsState = "PRETRACKING"
  /\ mSession = 1
  /\ isPollingVpsState = TRUE
  /\ executorService = <<>>
  /\ session = [i \in SessionIds |-> IF i = 1 THEN "resumed" ELSE "free"]
  /\ earth = ConfiguredEarth
  /\ pc = [t \in Threads |-> IF t = "worker" THEN "p_loop" ELSE "idle"]
  /\ cmd = [t \in Threads |-> IF t = "worker" THEN "pollVpsState" ELSE "none"]
  /\ tgt = [t \in Threads |-> "NOT_SETUP"]
  /\ ret = [t \in Threads |-> "idle"]
  /\ rv = [t \in Threads |-> "none"]
  /\ cid = [t \in Threads |-> 0]
  /\ recording = FALSE
  /\ ncmd = 0
  /\ log = <<>>
  /\ events = <<>>
  /\ ticks = 0
  /\ pose = 1
  /\ poseMap = <<>>
  /\ pollFatal = "off"

\* The polling task and an application that only asks for the pose.
NextPose ==
  \/ \E t \in Threads : setState_check(t)
  \/ \E t \in Threads : setState_write(t)
  \/ \E t \in Threads : setState_emit(t)
  \/ \E t \in Threads : resolve(t)
  \/ \E t \in Threads : finish(t)
  \/ pollVpsState_loop
  \/ pollVpsState_session
  \/ pollVpsState_stop
  \/ pollVpsState_update
  \/ pollVpsState_earth
  \/ updateGeospatialState_clear
  \/ updateGeospatialState_compare
  \/ getCameraGeospatialPose
  \/ getCameraGeospatialPose_earth
  \/ getCameraGeospatialPose_tracking

SpecPose == InitPose /\ [][NextPose]_vars

\* The commands an application issues while it tracks, beside the tasks of
\* executorService: startTracking, stopTracking and closeAR.
NextClose ==
  \/ \E t \in Threads : setState_check(t)
  \/ \E t \in Threads : setState_write(t)
  \/ \E t \in Threads : setState_emit(t)
  \/ \E t \in Threads : resolve(t)
  \/ \E t \in Threads : uncaught(t)
  \/ \E t \in Threads : finish(t)
  \/ startTracking
  \/ startTracking_state
  \/ startTracking_resume
  \/ startTracking_poll
  \/ startTracking_submit
  \/ stopTracking
  \/ stopTracking_flag
  \/ stopTracking_pause
  \/ closeAR
  \/ closeAR_check
  \/ closeAR_pause
  \/ closeAR_execute
  \/ closeTask_check
  \/ closeTask_close
  \/ closeTask_null
  \/ closeTask_catch
  \/ worker_take
  \/ pollVpsState_loop
  \/ pollVpsState_session
  \/ pollVpsState_stop
  \/ pollVpsState_update
  \/ pollVpsState_earth
  \/ updateGeospatialState_clear
  \/ updateGeospatialState_compare

\* The module from the moment it tracks, with the thread of executorService
\* scheduled.
SpecClose == InitPose /\ [][NextClose]_vars /\ WF_vars(WorkerNext)

TypeOK ==
  /\ vpsState \in VpsState
  /\ mSession \in SessionIds \cup {NULL}
  /\ isPollingVpsState \in BOOLEAN
  /\ Len(executorService) <= MaxQueue
  /\ ticks \in 0..MaxTicks
  /\ pollFatal \in {"off", "clear", "set", "restart"}
  /\ pose \in Poses
  /\ Len(poseMap) <= 2
  /\ ncmd = Len(log)

\* ------------------------------------------------------------ properties
\* The fields of the module and the engine's sessions.
ModuleState == <<vpsState, mSession, isPollingVpsState, executorService, session>>

\* The caller thread takes the step that leaves label l.
CallerStep(l) == pc["caller"] = l /\ pc'["caller"] # l

\* Command c is issued in this step.
Calls(c) == pc["caller"] = "idle" /\ cmd'["caller"] = c

\* Thread t is about to resolve (or return) v.
Resolving(t, v) == pc[t] = "resolve" /\ rv[t] = v

\* The caller thread runs a step of command c.
CallerIn(c) == cmd["caller"] = c /\ pc'["caller"] # pc["caller"]

\* A pollVpsState task waits on executorService, or runs on the worker and
\* has not left its loop.
PollQueued == \E i \in 1..Len(executorService) : executorService[i].task = "poll"
PollRunning == cmd["worker"] = "pollVpsState" /\ pc["worker"] # "finish"

\* C1: in every state other than READY_TO_TRACK startTracking resolves
\* ERROR_SESSION_NOT_READY (ERROR_SESSION_NOT_INITIALIZED when mSession is
\* null); none of its steps resumes a session, sets isPollingVpsState, queues
\* a task or writes vpsState.
C1_StartTrackingRefused ==
  [][ /\ Calls("startTracking") =>
           /\ UNCHANGED ModuleState
           /\ mSession = NULL => Resolving("caller", "ERROR_SESSION_NOT_INITIALIZED")'
      /\ (CallerStep("st_state") /\ vpsState # "READY_TO_TRACK") =>
           /\ UNCHANGED ModuleState
           /\ Resolving("caller", "ERROR_SESSION_NOT_READY")'
      /\ (CallerStep("resolve") /\ cmd["caller"] = "startTracking"
          /\ rv["caller"] \in {"ERROR_SESSION_NOT_READY", "ERROR_SESSION_NOT_INITIALIZED"}) =>
           UNCHANGED ModuleState
    ]_vars

\* startTracking is refused in a fatal polling state although a session exists.
C1_Witness ==
  /\ Resolving("caller", "ERROR_SESSION_NOT_READY")
  /\ cmd["caller"] = "startTracking"
  /\ vpsState = "FATAL_UPDATE_ERROR"
  /\ mSession # NULL

\* C2: when startTracking finds READY_TO_TRACK and resume() returns on its live
\* session, it writes PRETRACKING, leaves isPollingVpsState set with a polling
\* task queued or running (submitting one exactly when the flag was clear), and
\* resolves true.
C2_StartTrackingSucceeds ==
  [][ /\ (CallerStep("st_resume") /\ pc'["caller"] = "ss_check") =>
           /\ mSession # NULL /\ session'[mSession] = After(session[mSession], "resumed")
           /\ tgt'["caller"] = "PRETRACKING" /\ ret'["caller"] = "st_poll"
      /\ (CallerIn("startTracking") /\ pc["caller"] = "ss_check") =>
           IF vpsState = "PRETRACKING"
           THEN pc'["caller"] = "st_poll"
           ELSE pc'["caller"] = "ss_write"
      /\ (CallerIn("startTracking") /\ pc["caller"] = "ss_write") =>
           vpsState' = "PRETRACKING"
      /\ CallerStep("st_poll") =>
           /\ isPollingVpsState'
           /\ IF isPollingVpsState
              THEN /\ Resolving("caller", "true")'
                   /\ UNCHANGED executorService
                   /\ PollQueued \/ PollRunning
              ELSE pc'["caller"] = "st_submit"
      /\ CallerStep("st_submit") =>
           /\ Resolving("caller", "true")'
           /\ Len(executorService') = Len(executorService) + 1
           /\ PollQueued'
    ]_vars

\* startTracking resolves true on a resumed session with a polling task queued.
C2_Witness ==
  /\ Resolving("caller", "true")
  /\ cmd["caller"] = "startTracking"
  /\ vpsState = "PRETRACKING"
  /\ isPollingVpsState
  /\ PollQueued
  /\ mSession # NULL /\ session[mSession] = "resumed"

\* C3: whenever stopTracking finds a session it clears isPollingVpsState,
\* pauses the session, sets READY_TO_TRACK and returns true.
C3_StopTrackingFromAnyState ==
  [][ /\ CallerStep("sp_flag") => ~isPollingVpsState'
      /\ CallerStep("sp_pause") =>
           /\ pc'["caller"] = "ss_check"
           /\ tgt'["caller"] = "READY_TO_TRACK"
           /\ rv'["caller"] = "true"
    ]_vars

\* C4: stopTracking with mSession null returns false at once: it calls no
\* setState (so nothing is emitted) and writes no field.
C4_StopTrackingNoHandle ==
  [][ /\ (Calls("stopTracking") /\ mSession = NULL) =>
           /\ Resolving("caller", "false")'
           /\ UNCHANGED <<ModuleState, events>>
      /\ (CallerStep("resolve") /\ cmd["caller"] = "stopTracking") =>
           /\ pc'["caller"] = "idle"
           /\ UNCHANGED <<ModuleState, events>>
    ]_vars

\* stopTracking returns false while the state is not NOT_SETUP.
C4_Witness ==
  /\ Resolving("caller", "false")
  /\ cmd["caller"] = "stopTracking"
  /\ mSession = NULL
  /\ vpsState = "UNSUPPORTED"

\* Command number i is the only closeAR of the history, which has no
\* invalidate: nothing but the task of command i closes a session.
OnlyClose(i) ==
  \A j \in 1..Len(log) : j # i => log[j].c \notin {"closeAR", "invalidate"}

\* No command of the history ended with an exception leaving its method.
NoneEscaped == \A j \in 1..Len(log) : log[j].r # "UNCAUGHT"

\* A polling task is inside a tick.
PollTicking == cmd["worker"] = "pollVpsState" /\ pc["worker"] \notin {"p_loop", "finish"}

\* C5: when the task of a closeAR that found a session, paused it and closed
\* it resolves true, mSession is null, vpsState is NOT_SETUP,
\* isPollingVpsState is false and no polling task is inside a tick.
C5_CloseARLeavesNothing ==
  (/\ Resolving("worker", "true")
   /\ cmd["worker"] = "closeAR"
   /\ OnlyClose(cid["worker"])
   /\ NoneEscaped)
  => /\ mSession = NULL
     /\ vpsState = "NOT_SETUP"
     /\ ~isPollingVpsState
     /\ ~PollTicking

\* C6: two closeAR calls in a row that both resolve true emit at most one
\* state-change event between them: the second adds none to the first's.
C6_SecondCloseARSilent ==
  \A i \in 1..Len(log) :
    (/\ i < Len(log)
     /\ NoneEscaped
     /\ log[i] = [c |-> "closeAR", r |-> "true"]
     /\ log[i + 1] = [c |-> "closeAR", r |-> "true"])
    => Cardinality({k \in 1..Len(events) : events[k].c \in {i, i + 1}}) <= 1

\* The states of the events emitted, in order.
States(ev) == [k \in 1..Len(ev) |-> ev[k].s]

\* setupAR and then startTracking have resolved true (the second may be at its
\* promise.resolve), no other command was issued, and the first tick of the
\* polling task is over, having seen the earth ENABLED and TRACKING.
FirstFix ==
  /\ ncmd = 2
  /\ log[1] = [c |-> "setupAR", r |-> "true"]
  /\ log[2].c = "startTracking"
  /\ \/ log[2].r = "true"
     \/ log[2].r = "pending" /\ Resolving("caller", "true")
  /\ ticks = 1
  /\ earth = "tracking"
  /\ cmd["worker"] = "pollVpsState" /\ pc["worker"] = "p_loop"

\* C7: from the initial state, setupAR resolving true, startTracking resolving
\* true and a first tick that sees the earth tracking emit exactly SETTING_UP,
\* READY_TO_TRACK, PRETRACKING, TRACKING, in this order, after NOT_SETUP.
C7_FirstFixSequence ==
  FirstFix =>
    /\ States(events) = <<"SETTING_UP", "READY_TO_TRACK", "PRETRACKING", "TRACKING">>
    /\ vpsState = "TRACKING"

\* The scenario of C7 has run to the end of the first tick.
C7_Witness ==
  /\ FirstFix
  /\ log[2].r = "true"
  /\ Len(events) = 4

\* C8: in every reachable state at most one session is live (made and not
\* closed), however setupAR, the task of closeAR and invalidate interleave.
C8_OneLiveSession == Cardinality(Live) <= 1

\* C9: when requestInstall answers INSTALL_REQUESTED, setupAR resolves false
\* with no session made and vpsState back at NOT_SETUP.
C9_InstallRequestedReverts ==
  (Resolving("caller", "false") /\ cmd["caller"] = "setupAR")
  => /\ mSession = NULL
     /\ vpsState = "NOT_SETUP"

\* C10: a setupAR that finds ARCore unsupported resolves
\* ERROR_ARCORE_NOT_SUPPORTED, and one that finds geospatial mode unsupported
\* returns after resolving ERROR_GEOSPATIAL_NOT_SUPPORTED, with vpsState
\* UNSUPPORTED and mSession null.
C10_UnsupportedKeepsNoSession ==
  ((pc["caller"] = "finish" /\ cmd["caller"] = "setupAR")
   \/ (Resolving("caller", "ERROR_ARCORE_NOT_SUPPORTED") /\ cmd["caller"] = "setupAR"))
  => /\ mSession = NULL
     /\ vpsState = "UNSUPPORTED"

\* The exception classes the engine raises from new Session(...) and from the
\* configuration calls of setupAR.
SetupExceptions == (CreateOutcomes \cup ConfigureOutcomes) \ {"ok"}

\* The SetupError values setupAR's catch clauses resolve with.
SetupErrors == {setupARCatch(e) : e \in SetupExceptions} \ {"UNCAUGHT"}

\* C11: an engine exception raised while setupAR creates or configures the
\* session never leaves setupAR, and when setupAR resolves a SetupError of
\* its catch clauses vpsState is SETUP_FAILED.
C11_SetupFaultsResolve ==
  /\ (cmd["caller"] = "setupAR" /\ pc["caller"] = "uncaught") =>
        rv["caller"] \notin SetupExceptions
  /\ (cmd["caller"] = "setupAR" /\ \E v \in SetupErrors : Resolving("caller", v)) =>
        vpsState = "SETUP_FAILED"

\* C12: vpsState changes to TRACKING only from PRETRACKING, and only by the
\* setState of a polling task; no other state (READY_TO_TRACK set by
\* stopTracking, for one) is followed by TRACKING.
C12_TrackingOnlyFromPretracking ==
  [][ (vpsState' = "TRACKING" /\ vpsState # "TRACKING") =>
        /\ vpsState = "PRETRACKING"
        /\ cmd["worker"] = "pollVpsState"
        /\ pc["worker"] = "ss_write" ]_vars

C14_NoRepeatedEvent ==
  NoneEscaped =>
    \A k \in 1..(Len(events) - 1) : events[k].s # events[k + 1].s

\* No thread is inside a command or a task, and no task waits.
AllIdle ==
  /\ \A t \in Threads : pc[t] \in {"idle", "dead"}
  /\ executorService = <<>>

\* C15: in a run where no command ended in an uncaught exception, once all
\* threads are idle the last published event carries the current state.
C15_LastEventIsState ==
  (NoneEscaped /\ AllIdle /\ events # <<>>) =>
    events[Len(events)].s = vpsState

\* What the queries must leave alone: the state, the handle, the polling
\* flag and the published events.
QueryFrame == <<vpsState, mSession, isPollingVpsState, events>>

\* C16: getCameraGeospatialPose resolves ERROR_SESSION_NOT_INITIALIZED when
\* mSession is null; with a session, ERROR_EARTH_NOT_AVAILABLE when there is
\* no earth object; with an earth, ERROR_EARTH_NOT_TRACKING when its tracking
\* state is not TRACKING and the pose otherwise; none of its steps writes the
\* state, the handle or the polling flag or publishes an event.
C16_PosePriority ==
  [][ /\ Calls("getCameraGeospatialPose") =>
           IF mSession = NULL
           THEN Resolving("caller", "ERROR_SESSION_NOT_INITIALIZED")'
           ELSE pc'["caller"] = "gp_earth"
      /\ (CallerStep("gp_earth") /\ mSession # NULL) =>
           IF earth = "null"
           THEN Resolving("caller", "ERROR_EARTH_NOT_AVAILABLE")'
           ELSE pc'["caller"] = "gp_tracking"
      /\ CallerStep("gp_tracking") =>
           IF earth = "tracking"
           THEN Resolving("caller", "POSE")'
           ELSE Resolving("caller", "ERROR_EARTH_NOT_TRACKING")'
      /\ (Calls("getCameraGeospatialPose") \/ CallerIn("getCameraGeospatialPose")) =>
           UNCHANGED QueryFrame ]_vars

\* getCameraGeospatialPose resolves the pose of a tracking earth.
C16_Witness ==
  /\ cmd["caller"] = "getCameraGeospatialPose"
  /\ Resolving("caller", "POSE")
  /\ mSession # NULL
  /\ earth = "tracking"

\* C17: when getCameraGeospatialPose reads the earth's tracking state with
\* vpsState READY_TO_TRACK, it resolves no pose; shown for runs in which
\* every command has resolved before the next is issued and none ended in an
\* uncaught exception.
C17_ReadyGivesNoPose ==
  [][ ( /\ NoneEscaped
        /\ \A j \in 1..(Len(log) - 1) : log[j].r # "pending"
        /\ cmd["caller"] = "getCameraGeospatialPose"
        /\ CallerStep("gp_tracking")
        /\ vpsState = "READY_TO_TRACK" ) =>
        ~Resolving("caller", "POSE")' ]_vars

\* C18: checkVpsAvailability resolves ERROR_SESSION_NOT_INITIALIZED when
\* mSession is null; with a session it calls checkVpsAvailabilityAsync in
\* whatever state vpsState is, and either the call throws SecurityException
\* and ERROR_INTERNET_PERMISSION_NOT_GRANTED is resolved, or the engine's
\* callback resolves the value the engine reports; none of its steps writes
\* the state, the handle or the polling flag or publishes an event.
C18_AvailabilityAnyState ==
  [][ /\ Calls("checkVpsAvailability") =>
           IF mSession = NULL
           THEN Resolving("caller", "ERROR_SESSION_NOT_INITIALIZED")'
           ELSE pc'["caller"] = "cv_call"
      /\ (CallerStep("cv_call") /\ mSession # NULL) =>
           \/ pc'["engine"] = "cv_callback" /\ cid'["engine"] = cid["caller"]
           \/ Resolving("caller", "ERROR_INTERNET_PERMISSION_NOT_GRANTED")'
      /\ (pc["engine"] = "cv_callback" /\ pc'["engine"] # "cv_callback") =>
           \E a \in AvailabilityValues : Resolving("engine", a)'
      /\ ( \/ Calls("checkVpsAvailability")
           \/ CallerIn("checkVpsAvailability")
           \/ pc'["engine"] # pc["engine"] ) =>
           UNCHANGED QueryFrame ]_vars

\* C18 as first stated: with a session, checkVpsAvailability always hands the
\* query to the engine, whose answer it resolves.
C18_AlwaysEngineTag ==
  [][ (CallerStep("cv_call") /\ mSession # NULL) =>
        pc'["engine"] = "cv_callback" ]_vars

\* The engine answers a query made while nothing is tracked.
C18_Witness ==
  /\ cmd["engine"] = "checkVpsAvailability"
  /\ Resolving("engine", "AVAILABLE")
  /\ mSession # NULL
  /\ vpsState = "SETUP_FAILED"

\* C19: a startTracking called after a polling task has written a fatal
\* state (while no command was running), with no closeAR or invalidate called
\* in between, does not resolve true.
C19_NoRestartAfterFatal ==
  (pollFatal = "restart" /\ cmd["caller"] = "startTracking") =>
    ~Resolving("caller", "true")

\* The last two events are TRACKING and then CAMERA_NOT_AVAILABLE, which is
\* the state, and the polling task has ended; the command running now was
\* issued after that.
CameraLostWhileTracking ==
  /\ Len(events) >= 2
  /\ events[Len(events)].n < cid["caller"]
  /\ events[Len(events) - 1].s = "TRACKING"
  /\ events[Len(events)].s = "CAMERA_NOT_AVAILABLE"
  /\ vpsState = "CAMERA_NOT_AVAILABLE"
  /\ ~isPollingVpsState
  /\ pc["worker"] = "idle"
  /\ executorService = <<>>

\* C20: after update() failed with CameraNotAvailableException in state
\* TRACKING and the polling task has ended, a getCameraGeospatialPose that
\* is called after that (every earlier command has resolved) resolves no
\* pose.
C20_NoPoseAfterCameraLoss ==
  [][ ( /\ CameraLostWhileTracking
        /\ \A j \in 1..(Len(log) - 1) : log[j].r \notin {"pending", "UNCAUGHT"}
        /\ cmd["caller"] = "getCameraGeospatialPose"
        /\ CallerStep("gp_tracking") ) =>
        ~Resolving("caller", "POSE")' ]_vars

\* C21: once a polling task has written a fatal state and ended, with no
\* command issued since, mSession is null and no session is live.
C21_FatalPollDestroysHandle ==
  ( /\ pollFatal = "set"
    /\ vpsState \in FatalStates
    /\ pc["worker"] = "idle" /\ pc["caller"] = "idle"
    /\ executorService = <<>> ) =>
    (mSession = NULL /\ Live = {})

\* The GeospatialTrackingStartErrors value that names each failure of resume.
StartErrorFor(e) ==
  CASE e = "SessionNotPausedException" -> "ERROR_SESSION_NOT_PAUSED"
    [] e = "CameraNotAvailableException" -> "ERROR_CAMERA_NOT_AVAILABLE"
    [] e = "SecurityException" -> "ERROR_CAMERA_PERMISSION_NOT_GRANTED"
    [] e = "IllegalStateException" -> "ERROR_ILLEGAL_STATE"
    [] e = "UnsupportedConfigurationException" -> "ERROR_UNSUPPORTED_CONFIGURATION"
    [] e = "FatalException" -> "ERROR_FATAL"

\* The values startTracking resolves after a failed resume.
ResumeErrors ==
  {"ERROR_SESSION_NOT_PAUSED", "ERROR_CAMERA_NOT_AVAILABLE",
   "ERROR_CAMERA_PERMISSION_NOT_GRANTED", "ERROR_ILLEGAL_STATE",
   "ERROR_UNSUPPORTED_CONFIGURATION", "ERROR_FATAL"}

\* C22: when mSession.resume() throws inside startTracking, startTracking
\* resolves the StartError that names the exception, and neither that step
\* nor the resolution writes vpsState, sets isPollingVpsState, queues a task
\* or changes a session.
C22_ResumeFailureKeepsReady ==
  [][ /\ (CallerStep("st_resume") /\ mSession # NULL /\ pc'["caller"] # "ss_check") =>
           /\ \E e \in ResumeOutcomes(session[mSession]) \ {"ok"} :
                Resolving("caller", StartErrorFor(e))'
           /\ UNCHANGED ModuleState
      /\ ( /\ cmd["caller"] = "startTracking"
           /\ \E v \in ResumeErrors : Resolving("caller", v)
           /\ pc'["caller"] # pc["caller"] ) =>
           UNCHANGED ModuleState ]_vars

\* startTracking resolves the error of a resume that found no camera; the
\* state is READY_TO_TRACK and no polling task was started.
C22_Witness ==
  /\ cmd["caller"] = "startTracking"
  /\ Resolving("caller", "ERROR_CAMERA_NOT_AVAILABLE")
  /\ vpsState = "READY_TO_TRACK"
  /\ ~isPollingVpsState
  /\ ~PollQueued /\ ~PollRunning

\* The worker runs a step of the task of closeAR.
CloseTaskStep == cmd["worker"] = "closeAR" /\ pc'["worker"] # pc["worker"]

\* C23: a closeAR whose pause() throws resolves ERROR_ARCORE_PAUSE_ERROR, and
\* one whose close() throws while mSession is still set resolves
\* ERROR_ARCORE_CLOSE_ERROR; neither the failing step nor the resolution
\* writes mSession or vpsState.
C23_CloseARFailures ==
  [][ /\ (CallerStep("cl_pause") /\ pc'["caller"] # "cl_execute") =>
           /\ Resolving("caller", "ERROR_ARCORE_PAUSE_ERROR")'
           /\ UNCHANGED <<vpsState, mSession, session>>
      /\ ( /\ cmd["caller"] = "closeAR"
           /\ Resolving("caller", "ERROR_ARCORE_PAUSE_ERROR")
           /\ pc'["caller"] # pc["caller"] ) =>
           UNCHANGED <<vpsState, mSession, session>>
      /\ (CloseTaskStep /\ pc["worker"] = "c_close" /\ pc'["worker"] = "c_catch") =>
           UNCHANGED <<vpsState, mSession, session>>
      /\ (CloseTaskStep /\ pc["worker"] = "c_catch" /\ mSession # NULL) =>
           /\ Resolving("worker", "ERROR_ARCORE_CLOSE_ERROR")'
           /\ UNCHANGED <<vpsState, mSession, session>>
      /\ (CloseTaskStep /\ Resolving("worker", "ERROR_ARCORE_CLOSE_ERROR")) =>
           UNCHANGED <<vpsState, mSession, session>> ]_vars

\* The task of closeAR resolves the close error and the session is still held.
C23_Witness ==
  /\ cmd["worker"] = "closeAR"
  /\ Resolving("worker", "ERROR_ARCORE_CLOSE_ERROR")
  /\ mSession # NULL
  /\ session[mSession] = "paused"
  /\ vpsState = "READY_TO_TRACK"

\* C24: in a run where setupAR resolved true first, every stopTracking that
\* returned true was preceded by a startTracking that resolved true, with no
\* stopTracking returning true in between.
C24_StopTrueOnlyIfStarted ==
  (Len(log) >= 1 /\ log[1].c = "setupAR" /\ log[1].r = "true") =>
    \A j \in 1..Len(log) :
      (log[j].c = "stopTracking" /\ log[j].r = "true") =>
        \E i \in 1..(j - 1) :
          /\ log[i].c = "startTracking" /\ log[i].r = "true"
          /\ \A k \in (i + 1)..(j - 1) :
               ~(log[k].c = "stopTracking" /\ log[k].r = "true")

\* The exception classes the engine's calls raise.
EngineExceptions ==
  (CreateOutcomes \cup ConfigureOutcomes
     \cup UNION {ResumeOutcomes(st) \cup PauseOutcomes(st) \cup CloseOutcomes(st)
                   \cup UpdateOutcomes(st) : st \in {"paused", "resumed", "closed"}})
  \ {"ok"}

\* C25: no command and no query ends in an exception raised by the engine.
C25_NoEngineFaultEscapes ==
  \A t \in Threads : pc[t] = "uncaught" => rv[t] \notin EngineExceptions

\* The task of closeAR has read mSession and has not finished its teardown
\* (close, clear the handle, setState(NOT_SETUP)).
InCloseTeardown ==
  /\ cmd["worker"] = "closeAR"
  /\ pc["worker"] \in {"c_close", "c_null", "c_catch", "ss_check", "ss_write", "ss_emit"}

\* The caller thread is between the first and the last read or write of a
\* setupAR, startTracking or stopTracking.
InCommand ==
  /\ cmd["caller"] \in {"setupAR", "startTracking", "stopTracking"}
  /\ pc["caller"] \notin {"idle", "resolve", "finish", "uncaught", "dead"}

\* C26: in a run where no command ended in an uncaught exception, the
\* teardown of closeAR's task and the reads and writes of a setupAR,
\* startTracking or stopTracking are never both under way.
C26_CommandsSerialized == NoneEscaped => ~(InCloseTeardown /\ InCommand)

\* The value getCameraGeospatialPose resolves with is the map m of the
\* GeospatialPose g, key by key and quaternion component by component.
SamePose(m, g) ==
  /\ m.latitude = g.getLatitude
  /\ m.longitude = g.getLongitude
  /\ m.altitude = g.getAltitude
  /\ Len(m.quaternion) = 4
  /\ \A i \in 1..4 : m.quaternion[i] = g.getEastUpSouthQuaternion[i]
  /\ m.verticalAccuracy = g.getVerticalAccuracy
  /\ m.horizontalAccuracy = g.getHorizontalAccuracy
  /\ m.orientationYawAccuracy = g.getOrientationYawAccuracy

\* C27: when getCameraGeospatialPose resolves with a pose, the map it
\* resolves with has the seven values of the pose the engine holds at that
\* call, whatever map an earlier call resolved with.
C27_PoseUnchangedAndFresh ==
  [][ (CallerStep("gp_tracking") /\ EarthTracks(earth)) =>
        /\ Resolving("caller", "POSE")'
        /\ poseMap' # <<>>
        /\ SamePose(poseMap'[1], EnginePose(pose)) ]_vars

\* A second call has resolved with the pose of a later frame, which is not
\* the one the call before it resolved with.
C27_Witness ==
  /\ cmd["caller"] = "getCameraGeospatialPose"
  /\ pc["caller"] = "resolve"
  /\ rv["caller"] = "POSE"
  /\ Len(poseMap) = 2
  /\ poseMap[1] # poseMap[2]
  /\ SamePose(poseMap[1], EnginePose(pose))

\* stopTracking was the last command issued and has returned true, after a
\* setupAR and a startTracking that returned true.
StoppedLast ==
  /\ Len(log) = 3
  /\ log[1] = [c |-> "setupAR", r |-> "true"]
  /\ log[2] = [c |-> "startTracking", r |-> "true"]
  /\ log[3] = [c |-> "stopTracking", r |-> "true"]
  /\ pc["caller"] = "idle"

\* C28: once stopTracking has returned true, with no command after it and
\* the polling task gone, the state is READY_TO_TRACK: nothing a tick wrote
\* is left over it.
C28_StoppedStaysReady ==
  (StoppedLast /\ pc["worker"] = "idle" /\ executorService = <<>>)
    => vpsState = "READY_TO_TRACK"

\* A polling task leaves the queue of executorService and starts to run.
PollStarts ==
  /\ executorService # <<>>
  /\ Head(executorService).task = "poll"
  /\ executorService' = Tail(executorService)

\* C29: a polling task starts only when no task runs on the thread of
\* executorService, and no other thread ever runs one: at most one polling
\* task executes ticks at a time.
C29_OnePollingLoop ==
  [][ /\ PollStarts => cmd["worker"] = "none"
      /\ \A t \in Threads \ {"worker"} : cmd'[t] # "pollVpsState" ]_vars

\* startTracking has queued a second polling task while the first one is
\* inside a tick and sees the flag set.
C29_Witness ==
  /\ PollTicking
  /\ PollQueued
  /\ isPollingVpsState
  /\ vpsState = "PRETRACKING"
  /\ pc["caller"] = "idle"

\* The polling task calls the engine on the handle in mSession in this step:
\* mSession.update() or mSession.getEarth() and the earth's state reads.
PollCallsEngine ==
  /\ cmd["worker"] = "pollVpsState"
  /\ pc["worker"] \in {"p_update", "p_earth"}
  /\ pc'["worker"] # pc["worker"]
  /\ mSession # NULL

\* C30: in a run where no command ended in an uncaught exception, the
\* polling task never calls the engine on a handle that has been closed.
C30_NoPollOnClosedHandle ==
  [][ (NoneEscaped /\ PollCallsEngine) => session[mSession] # "closed" ]_vars

\* The polling task has caught a failure of its tick and has not returned.
PollFailed ==
  /\ cmd["worker"] = "pollVpsState"
  /\ rv["worker"] \notin {"none", EarthNotEnabled}

\* The worker takes the step that leaves label l.
WorkerStep(l) == pc["worker"] = l /\ pc'["worker"] # l

\* C31: when update() fails in a tick, the polling task calls
\* setState(CAMERA_NOT_AVAILABLE) for a CameraNotAvailableException and
\* setState(FATAL_UPDATE_ERROR) for anything else; that setState writes the
\* state and publishes it unless it is the state already; the task then
\* clears isPollingVpsState and returns, and calls the engine no more.
C31_UpdateFailureStopsPolling ==
  [][ /\ (WorkerStep("p_update") /\ PollFailed') =>
           /\ pc'["worker"] = "ss_check"
           /\ ret'["worker"] = "p_stop"
           /\ tgt'["worker"] = IF rv'["worker"] = "CameraNotAvailableException"
                               THEN "CAMERA_NOT_AVAILABLE"
                               ELSE "FATAL_UPDATE_ERROR"
      /\ (PollFailed /\ WorkerStep("ss_check")) =>
           IF vpsState = tgt["worker"]
           THEN pc'["worker"] = "p_stop"
           ELSE pc'["worker"] = "ss_write"
      /\ (PollFailed /\ WorkerStep("ss_write")) =>
           (vpsState' = tgt["worker"] /\ pc'["worker"] = "ss_emit")
      /\ (PollFailed /\ WorkerStep("ss_emit")) =>
           /\ events' = Append(events, [s |-> tgt["worker"], c |-> 0, n |-> ncmd])
           /\ pc'["worker"] = "p_stop"
      /\ (PollFailed /\ WorkerStep("p_stop")) =>
           (~isPollingVpsState' /\ pc'["worker"] = "finish")
      /\ (PollFailed /\ WorkerStep("finish")) => cmd'["worker"] = "none"
      /\ PollFailed => (session' = session /\ earth' = earth /\ ticks' = ticks)
                         \/ pc'["worker"] = pc["worker"] ]_vars

\* A tick whose update() failed for the camera while the state was TRACKING
\* has published CAMERA_NOT_AVAILABLE and cleared the flag.
C31_Witness ==
  /\ PollFailed
  /\ rv["worker"] = "CameraNotAvailableException"
  /\ pc["worker"] = "finish"
  /\ ~isPollingVpsState
  /\ vpsState = "CAMERA_NOT_AVAILABLE"
  /\ Len(events) >= 2
  /\ events[Len(events)].s = "CAMERA_NOT_AVAILABLE"
  /\ events[Len(events) - 1].s = "TRACKING"

\* A tick of the polling task now running has seen an earth that is not
\* ENABLED.
PollSawEarthError == cmd["worker"] = "pollVpsState" /\ rv["worker"] = EarthNotEnabled

\* C32: a polling task that has written EARTH_STATE_ERROR for an earth that
\* is not ENABLED, while no command was running, calls update() no more when
\* commands are issued after that.
C32_EarthErrorEndsTask ==
  [][ (PollSawEarthError /\ pollFatal = "restart") => ~WorkerStep("p_update") ]_vars

\* The polling task found isPollingVpsState set and mSession null, and has
\* not yet cleared the flag.
PollFoundNoHandle ==
  /\ cmd["worker"] = "pollVpsState"
  /\ rv["worker"] \in {"none", EarthNotEnabled}
  /\ ret["worker"] = "p_stop" \/ pc["worker"] = "p_stop"

\* C33: a polling task that passed while (isPollingVpsState) and finds
\* mSession null calls setState(NOT_SETUP), which writes the state unless it
\* is NOT_SETUP already, then clears isPollingVpsState and returns; it makes
\* no engine call on the way.
C33_NoHandleStopsPolling ==
  [][ /\ (cmd["worker"] = "pollVpsState" /\ WorkerStep("p_session") /\ mSession = NULL) =>
           /\ pc'["worker"] = "ss_check"
           /\ tgt'["worker"] = "NOT_SETUP"
           /\ PollFoundNoHandle'
      /\ (PollFoundNoHandle /\ WorkerStep("ss_check")) =>
           IF vpsState = "NOT_SETUP"
           THEN pc'["worker"] = "p_stop"
           ELSE pc'["worker"] = "ss_write"
      /\ (PollFoundNoHandle /\ WorkerStep("ss_write")) =>
           (vpsState' = "NOT_SETUP" /\ pc'["worker"] = "ss_emit")
      /\ (PollFoundNoHandle /\ WorkerStep("ss_emit")) => pc'["worker"] = "p_stop"
      /\ (PollFoundNoHandle /\ WorkerStep("p_stop")) =>
           (~isPollingVpsState' /\ pc'["worker"] = "finish")
      /\ PollFoundNoHandle => (session' = session /\ earth' = earth /\ ticks' = ticks)
                                \/ pc'["worker"] = pc["worker"] ]_vars

\* A polling task that found no handle has set NOT_SETUP and is about to
\* clear the flag.
C33_Witness ==
  /\ PollFoundNoHandle
  /\ pc["worker"] = "p_stop"
  /\ mSession = NULL
  /\ vpsState = "NOT_SETUP"

\* A polling task runs while isPollingVpsState is cleared.
PollStopping == cmd["worker"] = "pollVpsState" /\ ~isPollingVpsState

\* C34: a polling task that runs after isPollingVpsState was cleared starts
\* no tick while the flag stays cleared, and it ends unless the flag is set
\* again (which only startTracking does).
C34_StopEndsPollingTask ==
  /\ [][ PollStopping => ~(WorkerStep("p_loop") /\ pc'["worker"] = "p_session") ]_vars
  /\ PollStopping ~> (cmd["worker"] # "pollVpsState" \/ isPollingVpsState)

\* stopTracking cleared the flag under a polling task that had called
\* update(), and the task has left its loop.
C34_Witness ==
  /\ Len(log) = 3
  /\ log[3].c = "stopTracking"
  /\ cmd["worker"] = "pollVpsState"
  /\ pc["worker"] = "finish"
  /\ ~isPollingVpsState
  /\ ticks >= 1

\* The states in which the module has a session to track with.
SessionStates == {"READY_TO_TRACK", "PRETRACKING", "TRACKING"}

\* C35: in a run where no command ended in an uncaught exception and
\* invalidate was not called, once every command has returned and every task
\* has ended, a vpsState of READY_TO_TRACK, PRETRACKING or TRACKING comes
\* with an mSession that holds a session that is not closed.
C35_SessionStatesHaveHandle ==
  (NoneEscaped /\ AllIdle /\ \A j \in 1..Len(log) : log[j].c # "invalidate") =>
    (vpsState \in SessionStates => (mSession # NULL /\ mSession \in Live))

\* The states in which the module is meant to hold no session.
NoSessionStates == {"NOT_SETUP", "SETUP_FAILED", "UNSUPPORTED"}

\* C36: in a run where no command ended in an uncaught exception, once every
\* command has returned and every task has ended, a vpsState of NOT_SETUP,
\* SETUP_FAILED or UNSUPPORTED comes with an mSession that is null.
C36_NoSessionStatesHoldNone ==
  (NoneEscaped /\ AllIdle) => (vpsState \in NoSessionStates => mSession = NULL)

\* C37: in a run where no command ended in an uncaught exception, while no
\* command runs and the polling task is between two ticks (or there is
\* none), isPollingVpsState is set only in PRETRACKING and TRACKING.
C37_FlagOnlyWhileTracking ==
  ( /\ NoneEscaped
    /\ pc["caller"] = "idle"
    /\ pc["worker"] \in {"idle", "p_loop"} ) =>
    (isPollingVpsState => vpsState \in {"PRETRACKING", "TRACKING"})

\* C38: in a run where no command ended in an uncaught exception, while no
\* command runs and no closeAR task is pending, a vpsState of PRETRACKING or
\* TRACKING comes with isPollingVpsState set and a polling task running or
\* queued.
C38_TrackingStatesArePolled ==
  ( /\ NoneEscaped
    /\ pc["caller"] = "idle"
    /\ \A j \in 1..Len(log) : log[j].r # "pending" ) =>
    (vpsState \in {"PRETRACKING", "TRACKING"} =>
       (isPollingVpsState /\ (PollRunning \/ PollQueued)))

\* C39: in a run where no command ended in an uncaught exception, while no
\* command runs and no closeAR task is pending, a vpsState of READY_TO_TRACK
\* comes with a session in mSession that is paused.
C39_ReadyMeansPaused ==
  ( /\ NoneEscaped
    /\ pc["caller"] = "idle"
    /\ \A j \in 1..Len(log) : log[j].r # "pending" ) =>
    (vpsState = "READY_TO_TRACK" => (mSession # NULL /\ session[mSession] = "paused"))

\* The task of a closeAR is the next one executorService will run.
CloseTaskNext ==
  /\ executorService # <<>>
  /\ Head(executorService).task = "close"

\* C40: the task of a closeAR that waits at the head of the queue of
\* executorService is eventually run (and with it the promise resolved),
\* whatever commands are issued meanwhile.
C40_CloseAREventuallyResolves ==
  CloseTaskNext ~> (cmd["worker"] = "closeAR")
====
